---- MODULE Spec2Model ----
(***************************************************************************)
(* envparser: Parse walks a struct by reflection and fills its fields from *)
(* environment variables (src/parser.go).  A string is a tuple of          *)
(* one-character strings; an integer is a tuple of 16-bit limbs, least     *)
(* significant first, so that 32- and 64-bit widths are the real ones.     *)
(* int and uint are 64 bits wide (strconv.IntSize on a 64-bit build).      *)
(***************************************************************************)
EXTENDS Integers, Sequences, FiniteSets

\* ------------------------------------------------------------ strings

Digits == <<"0", "1", "2", "3", "4", "5", "6", "7", "8", "9">>

IsDigit(c) == \E i \in 1..10 : Digits[i] = c

DigitVal(c) == (CHOOSE i \in 1..10 : Digits[i] = c) - 1

\* unicode.IsSpace on the characters a value can hold here
IsSpace(c) == c \in {" ", "\t", "\n", "\r"}

Drop(s, n) == SubSeq(s, n + 1, Len(s))

Take(s, n) == IF n >= Len(s) THEN s ELSE SubSeq(s, 1, n)

RECURSIVE TrimLeft(_)
TrimLeft(s) == IF s # <<>> /\ IsSpace(s[1]) THEN TrimLeft(Tail(s)) ELSE s

RECURSIVE TrimRight(_)
TrimRight(s) ==
    IF s # <<>> /\ IsSpace(s[Len(s)]) THEN TrimRight(SubSeq(s, 1, Len(s) - 1)) ELSE s

TrimSpace(s) == TrimRight(TrimLeft(s))

\* position of the first sep in s, 0 when there is none
RECURSIVE IndexFrom(_, _, _)
IndexFrom(s, sep, i) ==
    IF i > Len(s) THEN 0 ELSE IF s[i] = sep THEN i ELSE IndexFrom(s, sep, i + 1)

Index(s, sep) == IndexFrom(s, sep, 1)

\* strings.Split(s, sep) for a one-character sep: never empty, "" gives <<"">>
RECURSIVE Split(_, _)
Split(s, sep) ==
    LET i == Index(s, sep)
    IN  IF i = 0 THEN <<s>> ELSE <<SubSeq(s, 1, i - 1)>> \o Split(Drop(s, i), sep)

\* ------------------------------------------------------------ integers

Base == 2 ^ 16

Zero64 == <<0, 0, 0, 0>>

\* n * k + d on 64 bits; over: the exact result does not fit
MulAdd(n, k, d) ==
    LET a1 == n[1] * k + d
        a2 == n[2] * k + (a1 \div Base)
        a3 == n[3] * k + (a2 \div Base)
        a4 == n[4] * k + (a3 \div Base)
    IN  [v    |-> <<a1 % Base, a2 % Base, a3 % Base, a4 % Base>>,
         over |-> a4 \div Base > 0]

\* a + b on 64 bits
Add64(a, b) ==
    LET a1 == a[1] + b[1]
        a2 == a[2] + b[2] + (a1 \div Base)
        a3 == a[3] + b[3] + (a2 \div Base)
        a4 == a[4] + b[4] + (a3 \div Base)
    IN  [v    |-> <<a1 % Base, a2 % Base, a3 % Base, a4 % Base>>,
         over |-> a4 \div Base > 0]

\* two's complement negation on 64 bits
Neg64(n) ==
    Add64(<<Base - 1 - n[1], Base - 1 - n[2], Base - 1 - n[3], Base - 1 - n[4]>>,
          <<1, 0, 0, 0>>).v

\* conversion of a 64-bit value to a narrower integer type keeps the low bits
Trunc(n, bits) == IF bits = 32 THEN <<n[1], n[2]>> ELSE n

FitsUint(n, bits) == bits # 32 \/ (n[3] = 0 /\ n[4] = 0)

\* n >= 1 << 63
HighBit(n) == n[4] >= Base \div 2

\* n > 1 << 63
AboveMinInt(n) == HighBit(n) /\ n # <<0, 0, 0, Base \div 2>>

NoErr == <<>>

NumError(fn, num, err) == <<fn, num, err>>

RECURSIVE ParseUintFrom(_, _, _, _)
ParseUintFrom(s, i, n, bitSize) ==
    IF i > Len(s) THEN [v |-> n, err |-> NoErr]
    ELSE IF ~IsDigit(s[i]) THEN [v |-> Zero64, err |-> NumError("ParseUint", s, "invalid syntax")]
    ELSE LET r == MulAdd(n, 10, DigitVal(s[i]))
         IN  IF r.over \/ ~FitsUint(r.v, bitSize)
             THEN [v |-> Zero64, err |-> NumError("ParseUint", s, "value out of range")]
             ELSE ParseUintFrom(s, i + 1, r.v, bitSize)

\* strconv.ParseUint(s, 10, bitSize): no sign is accepted
ParseUint(s, bitSize) ==
    IF s = <<>> THEN [v |-> Zero64, err |-> NumError("ParseUint", s, "invalid syntax")]
    ELSE ParseUintFrom(s, 1, Zero64, bitSize)

\* strconv.ParseInt(s, 10, 64), the error naming fn; the value in two's complement
ParseIntAs(fn, s) ==
    LET neg  == s # <<>> /\ s[1] = "-"
        rest == IF s # <<>> /\ s[1] \in {"+", "-"} THEN Tail(s) ELSE s
        signed(un) ==
            IF s = <<>> \/ (un.err # NoErr /\ un.err[3] = "invalid syntax")
            THEN [v |-> Zero64, err |-> NumError(fn, s, "invalid syntax")]
            ELSE IF un.err # NoErr \/ (~neg /\ HighBit(un.v)) \/ (neg /\ AboveMinInt(un.v))
            THEN [v |-> Zero64, err |-> NumError(fn, s, "value out of range")]
            ELSE [v |-> IF neg THEN Neg64(un.v) ELSE un.v, err |-> NoErr]
    IN  signed(ParseUint(rest, 64))

ParseInt(s) == ParseIntAs("ParseInt", s)

\* a 64-bit two's complement value is in the int32 range
FitsInt32(n) ==
    \/ n[3] = 0 /\ n[4] = 0 /\ n[2] < Base \div 2
    \/ n[3] = Base - 1 /\ n[4] = Base - 1 /\ n[2] >= Base \div 2

\* strconv.ParseInt(s, 10, bits)
ParseIntBits(s, bits) ==
    LET fit(r) ==
            IF r.err = NoErr /\ bits = 32 /\ ~FitsInt32(r.v)
            THEN [v |-> Zero64, err |-> NumError("ParseInt", s, "value out of range")]
            ELSE r
    IN  fit(ParseInt(s))

\* strconv.Atoi: ParseInt(s, 10, 0) with the error's Func set to Atoi
Atoi(s) == ParseIntAs("Atoi", s)

\* strconv.ParseBool
ParseBool(s) ==
    IF s \in {<<"1">>, <<"t">>, <<"T">>, <<"T", "R", "U", "E">>, <<"t", "r", "u", "e">>,
              <<"T", "r", "u", "e">>}
    THEN [v |-> <<TRUE>>, err |-> NoErr]
    ELSE IF s \in {<<"0">>, <<"f">>, <<"F">>, <<"F", "A", "L", "S", "E">>,
                   <<"f", "a", "l", "s", "e">>, <<"F", "a", "l", "s", "e">>}
    THEN [v |-> <<FALSE>>, err |-> NoErr]
    ELSE [v |-> <<FALSE>>, err |-> NumError("ParseBool", s, "invalid syntax")]

\* ------------------------------------------------------------ floats

\* the longest prefix of s made of digits
RECURSIVE DigitPrefix(_)
DigitPrefix(s) ==
    IF s # <<>> /\ IsDigit(s[1]) THEN <<s[1]>> \o DigitPrefix(Tail(s)) ELSE <<>>

RECURSIVE StripZerosLeft(_)
StripZerosLeft(d) == IF d # <<>> /\ d[1] = "0" THEN StripZerosLeft(Tail(d)) ELSE d

RECURSIVE StripZerosRight(_)
StripZerosRight(d) ==
    IF d # <<>> /\ d[Len(d)] = "0" THEN StripZerosRight(SubSeq(d, 1, Len(d) - 1)) ELSE d

\* the number a digit string of at most four digits denotes
RECURSIVE SmallNum(_, _)
SmallNum(d, acc) ==
    IF d = <<>> THEN acc ELSE SmallNum(Tail(d), acc * 10 + DigitVal(d[1]))

\* an exponent is capped as strconv caps it: past 10000 the result is the same
ExpNum(d) == IF Len(StripZerosLeft(d)) > 4 THEN 10000 ELSE SmallNum(StripZerosLeft(d), 0)

\* digit strings as decimals 0.a and 0.b: a >= b
RECURSIVE GeqDigits(_, _)
GeqDigits(a, b) ==
    IF b = <<>> THEN TRUE
    ELSE IF a = <<>> THEN StripZerosLeft(b) = <<>>
    ELSE IF DigitVal(a[1]) # DigitVal(b[1]) THEN DigitVal(a[1]) > DigitVal(b[1])
    ELSE GeqDigits(Tail(a), Tail(b))

\* the first decimal above which rounding to the type gives +Inf:
\* 1.7976931348623158e308 for 64 bits, 3.4028235677973366e38 for 32
MaxExp10(bitSize) == IF bitSize = 32 THEN 38 ELSE 308

OverDigits(bitSize) ==
    IF bitSize = 32
    THEN <<"3", "4", "0", "2", "8", "2", "3", "5", "6", "7", "7", "9", "7", "3", "3", "6", "6">>
    ELSE <<"1", "7", "9", "7", "6", "9", "3", "1", "3", "4", "8", "6", "2", "3", "1", "5", "8">>

\* significant decimal digits that a value of the type keeps
Precision(bitSize) == IF bitSize = 32 THEN 9 ELSE 17

FloatZero == <<FALSE, <<>>, 0>>

\* a float is <<negative, significant digits d1 d2 .., e>>: d1.d2.. * 10^e
RoundTo(f, bitSize) ==
    IF f[2] = <<>> \/ f[3] < -(MaxExp10(bitSize) + 16) THEN <<f[1], <<>>, 0>>
    ELSE <<f[1], StripZerosRight(Take(f[2], Precision(bitSize))), f[3]>>

FloatOverflows(f, bitSize) ==
    /\ f[2] # <<>>
    /\ \/ f[3] > MaxExp10(bitSize)
       \/ f[3] = MaxExp10(bitSize) /\ GeqDigits(f[2], OverDigits(bitSize))

\* digits [. digits] at the head of s: [ip, dot, fp, rest]
Mantissa(s) ==
    LET frac(ip, s2) ==
            LET dot == s2 # <<>> /\ s2[1] = "."
                fp  == IF dot THEN DigitPrefix(Tail(s2)) ELSE <<>>
            IN  [ip |-> ip, dot |-> dot, fp |-> fp,
                 rest |-> IF dot THEN Drop(s2, 1 + Len(fp)) ELSE s2]
        int(ip) == frac(ip, Drop(s, Len(ip)))
    IN  int(DigitPrefix(s))

\* [e [sign] digits] at the head of s: [hasE, eneg, ed, rest]
Exponent(s) ==
    LET hasE   == s # <<>> /\ s[1] \in {"e", "E"}
        s4     == IF hasE THEN Tail(s) ELSE s
        signed == hasE /\ s4 # <<>> /\ s4[1] \in {"+", "-"}
        digits(s5) ==
            LET ed == IF hasE THEN DigitPrefix(s5) ELSE <<>>
            IN  [hasE |-> hasE, eneg |-> signed /\ s4[1] = "-", ed |-> ed,
                 rest |-> Drop(s5, Len(ed))]
    IN  digits(IF signed THEN Tail(s4) ELSE s4)

\* strconv.ParseFloat(s, bitSize) on decimal input: [sign] digits [. digits]
\* [e [sign] digits], at least one mantissa digit, the whole string consumed
ParseFloat(s, bitSize) ==
    LET bad == [v |-> FloatZero, err |-> NumError("ParseFloat", s, "invalid syntax")]
        neg == s # <<>> /\ s[1] = "-"
        value(m, x) ==
            LET all == m.ip \o m.fp
                sig == StripZerosLeft(all)
                e   == IF x.eneg THEN -ExpNum(x.ed) ELSE ExpNum(x.ed)
                f   == <<neg, StripZerosRight(sig), Len(m.ip) - (Len(all) - Len(sig)) - 1 + e>>
            IN  IF all = <<>> \/ (x.hasE /\ x.ed = <<>>) \/ x.rest # <<>> THEN bad
                ELSE IF FloatOverflows(f, bitSize)
                THEN [v |-> FloatZero, err |-> NumError("ParseFloat", s, "value out of range")]
                ELSE [v |-> RoundTo(f, bitSize), err |-> NoErr]
        exp(m) == value(m, Exponent(m.rest))
    IN  exp(Mantissa(IF s # <<>> /\ s[1] \in {"+", "-"} THEN Tail(s) ELSE s))

\* float32(x) of a float64 x: past the float32 range it is an infinity
Float32Of(f) ==
    IF FloatOverflows(f, 32) THEN <<f[1], <<"I", "n", "f">>, 0>> ELSE RoundTo(f, 32)

\* ------------------------------------------------------------ durations

\* n \div k on 64 bits, for 0 < k <= 10
DivSmall(n, k) ==
    LET c4 == n[4]
        c3 == (c4 % k) * Base + n[3]
        c2 == (c3 % k) * Base + n[2]
        c1 == (c2 % k) * Base + n[1]
    IN  <<c1 \div k, c2 \div k, c3 \div k, c4 \div k>>

\* the digit string d as a number, accumulated on acc; over: past 1 << 63
RECURSIVE LeadingInt(_, _)
LeadingInt(d, acc) ==
    IF d = <<>> THEN [v |-> acc, over |-> FALSE]
    ELSE LET r == MulAdd(acc, 10, DigitVal(d[1]))
         IN  IF r.over \/ AboveMinInt(r.v) THEN [v |-> Zero64, over |-> TRUE]
             ELSE LeadingInt(Tail(d), r.v)

\* unitMap: a unit is k * 10^p nanoseconds
UnitNames == {<<"n", "s">>, <<"u", "s">>, <<"m", "s">>, <<"s">>, <<"m">>, <<"h">>}

UnitFactor(u) == IF u = <<"m">> THEN 6 ELSE IF u = <<"h">> THEN 36 ELSE 1

UnitPow(u) ==
    CASE u = <<"n", "s">> -> 0
      [] u = <<"u", "s">> -> 3
      [] u = <<"m", "s">> -> 6
      [] u = <<"s">>      -> 9
      [] u = <<"m">>      -> 10
      [] u = <<"h">>      -> 11

RECURSIVE Times10(_, _)
Times10(r, p) ==
    IF p = 0 \/ r.over THEN r
    ELSE Times10(MulAdd(r.v, 10, 0), p - 1)

RECURSIVE Div10(_, _)
Div10(n, p) == IF p = 0 THEN n ELSE Div10(DivSmall(n, 10), p - 1)

\* the characters of s up to the next digit or '.'
RECURSIVE UnitPrefix(_)
UnitPrefix(s) ==
    IF s # <<>> /\ ~IsDigit(s[1]) /\ s[1] # "." THEN <<s[1]>> \o UnitPrefix(Tail(s)) ELSE <<>>

\* the fraction 0.fd of a unit, in nanoseconds, rounded down
FractionOf(fd, u) ==
    LET d == Take(fd, 18)
        scale(m) ==
            IF Len(d) <= UnitPow(u) THEN Times10(m, UnitPow(u) - Len(d)).v
            ELSE Div10(Times10(m, UnitPow(u)).v, Len(d))
    IN  scale(MulAdd(LeadingInt(d, Zero64).v, UnitFactor(u), 0))

\* [0-9]*(\.[0-9]*)?[a-z]+ repeated; sum is the nanoseconds so far.
\* The result is [ok, v]: v the total, at most 1 << 63.
RECURSIVE DurationTerms(_, _)
DurationTerms(s, sum) ==
    LET bad == [ok |-> FALSE, v |-> Zero64, why |-> "invalid duration"]
        past(r) == r.over \/ AboveMinInt(r.v)
        total(t, rest) == IF past(t) THEN bad ELSE DurationTerms(rest, t.v)
        part(p, rest) == IF past(p) THEN bad ELSE total(Add64(sum, p.v), rest)
        whole(w, fd, u, rest) ==
            IF past(w) THEN bad ELSE part(Add64(w.v, FractionOf(fd, u)), rest)
        term(m, int, u) ==
            IF m.ip = <<>> /\ m.fp = <<>> THEN bad
            ELSE IF int.over THEN bad
            ELSE IF u = <<>> THEN [ok |-> FALSE, v |-> Zero64, why |-> "missing unit in duration"]
            ELSE IF u \notin UnitNames THEN [ok |-> FALSE, v |-> Zero64, why |-> "unknown unit"]
            ELSE whole(Times10(MulAdd(int.v, UnitFactor(u), 0), UnitPow(u)), m.fp, u,
                       Drop(m.rest, Len(u)))
        number(m) == term(m, LeadingInt(m.ip, Zero64), UnitPrefix(m.rest))
    IN  IF s = <<>> THEN [ok |-> TRUE, v |-> sum, why |-> ""]
        ELSE number(Mantissa(s))

\* time.ParseDuration: the value is int64 nanoseconds in two's complement
ParseDuration(s) ==
    LET neg  == s # <<>> /\ s[1] = "-"
        rest == IF s # <<>> /\ s[1] \in {"+", "-"} THEN Tail(s) ELSE s
        sum(r) ==
            IF rest = <<"0">> THEN [v |-> Zero64, err |-> NoErr]
            ELSE IF rest = <<>>
            THEN [v |-> Zero64, err |-> <<"ParseDuration", s, "invalid duration">>]
            ELSE IF ~r.ok THEN [v |-> Zero64, err |-> <<"ParseDuration", s, r.why>>]
            ELSE IF neg THEN [v |-> Neg64(r.v), err |-> NoErr]
            ELSE IF HighBit(r.v)
            THEN [v |-> Zero64, err |-> <<"ParseDuration", s, "invalid duration">>]
            ELSE [v |-> r.v, err |-> NoErr]
    IN  sum(DurationTerms(rest, Zero64))

\* ------------------------------------------------------------ timestamps

IsLeap(y) == y % 4 = 0 /\ (y % 100 # 0 \/ y % 400 = 0)

DaysIn(m, y) ==
    IF m = 2 THEN (IF IsLeap(y) THEN 29 ELSE 28)
    ELSE IF m \in {4, 6, 9, 11} THEN 30 ELSE 31

AllDigits(s) == \A i \in 1..Len(s) : IsDigit(s[i])

TimeZero == <<1, 1, 1, 0, 0, 0, <<>>, 0>>

\* the zone of an RFC3339 timestamp: Z, or a signed hh:mm; minutes east of UTC
ParseZone(z) ==
    LET offset(h, m) ==
            IF h <= 24 /\ m <= 60
            THEN [ok |-> TRUE, off |-> IF z[1] = "-" THEN -(h * 60 + m) ELSE h * 60 + m]
            ELSE [ok |-> FALSE, off |-> 0]
    IN  IF z = <<"Z">> THEN [ok |-> TRUE, off |-> 0]
        ELSE IF /\ Len(z) = 6
                /\ z[1] \in {"+", "-"}
                /\ z[4] = ":"
                /\ AllDigits(<<z[2], z[3], z[5], z[6]>>)
        THEN offset(SmallNum(<<z[2], z[3]>>, 0), SmallNum(<<z[5], z[6]>>, 0))
        ELSE [ok |-> FALSE, off |-> 0]

\* time.Parse(time.RFC3339, s): yyyy-mm-ddThh:mm:ss, an optional fraction of a
\* second, then the zone.  The hour may be written with one digit.  The value
\* is <<year, month, day, hour, minute, second, fraction digits, zone offset>>.
ParseTime(s) ==
    LET bad(why) == [v |-> TimeZero, err |-> <<"time.Parse", s, why>>]
        date == Take(s, 11)
        value(y, mo, d, h, mi, se, frac, zone) ==
            IF mo \notin 1..12 \/ d \notin 1..DaysIn(mo, y) \/ h > 23 \/ mi > 59 \/ se > 59
            THEN bad("out of range")
            ELSE [v |-> <<y, mo, d, h, mi, se, StripZerosRight(Take(frac, 9)), zone.off>>,
                  err |-> NoErr]
        stamp(hd, ms, frac, zone) ==
            IF ~(/\ Len(date) = 11
                 /\ AllDigits(SubSeq(date, 1, 4)) /\ date[5] = "-"
                 /\ AllDigits(SubSeq(date, 6, 7)) /\ date[8] = "-"
                 /\ AllDigits(SubSeq(date, 9, 10)) /\ date[11] = "T"
                 /\ Len(hd) \in {1, 2}
                 /\ Len(ms) = 6 /\ ms[1] = ":" /\ AllDigits(SubSeq(ms, 2, 3))
                 /\ ms[4] = ":" /\ AllDigits(SubSeq(ms, 5, 6))
                 /\ zone.ok)
            THEN bad("cannot parse")
            ELSE value(SmallNum(SubSeq(date, 1, 4), 0), SmallNum(SubSeq(date, 6, 7), 0),
                       SmallNum(SubSeq(date, 9, 10), 0), SmallNum(hd, 0),
                       SmallNum(SubSeq(ms, 2, 3), 0), SmallNum(SubSeq(ms, 5, 6), 0),
                       frac, zone)
        zoned(hd, ms, s3, frac) ==
            stamp(hd, ms, frac, ParseZone(IF frac = <<>> THEN s3 ELSE Drop(s3, 1 + Len(frac))))
        second(hd, ms, s3) ==
            zoned(hd, ms, s3,
                  IF Len(s3) >= 2 /\ s3[1] \in {".", ","} /\ IsDigit(s3[2])
                  THEN DigitPrefix(Tail(s3)) ELSE <<>>)
        clock(hd, s2) == second(hd, Take(s2, 6), Drop(s2, 6))
        hour(hd) == clock(hd, Drop(s, 11 + Len(hd)))
    IN  hour(DigitPrefix(Drop(s, 11)))

\* ------------------------------------------------------------ ASCII

\* the printable ASCII characters, from code 32 (the backquote written %60)
Ascii ==
    <<" ", "!", "\"", "#", "$", "%", "&", "'", "(", ")", "*", "+", ",", "-", ".", "/",
      "0", "1", "2", "3", "4", "5", "6", "7", "8", "9", ":", ";", "<", "=", ">", "?",
      "@", "A", "B", "C", "D", "E", "F", "G", "H", "I", "J", "K", "L", "M", "N", "O",
      "P", "Q", "R", "S", "T", "U", "V", "W", "X", "Y", "Z", "[", "\\", "]", "^", "_",
      "%60", "a", "b", "c", "d", "e", "f", "g", "h", "i", "j", "k", "l", "m", "n", "o",
      "p", "q", "r", "s", "t", "u", "v", "w", "x", "y", "z", "{", "|", "}", "~">>

IsAscii(c) == \E i \in 1..Len(Ascii) : Ascii[i] = c

\* the code of a printable character
Code(c) == (CHOOSE i \in 1..Len(Ascii) : Ascii[i] = c) + 31

IsUpper(c) == IsAscii(c) /\ Code(c) \in 65..90

IsLetter(c) == IsAscii(c) /\ (Code(c) \in 65..90 \/ Code(c) \in 97..122)

ToLower(c) == IF IsUpper(c) THEN Ascii[Code(c) + 32 - 31] ELSE c

LowerStr(s) == [i \in 1..Len(s) |-> ToLower(s[i])]

IsHex(c) == IsDigit(c) \/ ToLower(c) \in {"a", "b", "c", "d", "e", "f"}

HexVal(c) == IF IsDigit(c) THEN DigitVal(c) ELSE Code(ToLower(c)) - 87

\* the character of a byte; a byte that is not printable is written %XY
HexDigits == <<"0", "1", "2", "3", "4", "5", "6", "7", "8", "9", "A", "B", "C", "D", "E", "F">>

Chr(b) ==
    IF b \in 32..126 THEN Ascii[b - 31]
    ELSE IF b = 9 THEN "\t" ELSE IF b = 10 THEN "\n" ELSE IF b = 13 THEN "\r"
    ELSE "%" \o HexDigits[(b \div 16) + 1] \o HexDigits[(b % 16) + 1]

\* ------------------------------------------------------------ base64

\* the value of a character in the standard alphabet, -1 when it is not in it
B64Val(c) ==
    LET val(k) ==
            IF k \in 65..90 THEN k - 65
            ELSE IF k \in 97..122 THEN k - 71
            ELSE IF k \in 48..57 THEN k + 4
            ELSE IF c = "+" THEN 62
            ELSE IF c = "/" THEN 63
            ELSE -1
    IN  IF ~IsAscii(c) THEN -1 ELSE val(Code(c))

RECURSIVE B64Quanta(_)
B64Quanta(s) ==
    LET rest == Drop(s, 4)
        more(bytes, r) == [ok |-> r.ok, v |-> bytes \o r.v]
        quantum(a, b, c, d) ==
            IF a < 0 \/ b < 0 THEN [ok |-> FALSE, v |-> <<>>]
            ELSE IF c >= 0 /\ d >= 0
            THEN more(<<a * 4 + (b \div 16), (b % 16) * 16 + (c \div 4), (c % 4) * 64 + d>>,
                      B64Quanta(rest))
            ELSE IF c >= 0 /\ s[4] = "=" /\ rest = <<>>
            THEN [ok |-> TRUE, v |-> <<a * 4 + (b \div 16), (b % 16) * 16 + (c \div 4)>>]
            ELSE IF s[3] = "=" /\ s[4] = "=" /\ rest = <<>>
            THEN [ok |-> TRUE, v |-> <<a * 4 + (b \div 16)>>]
            ELSE [ok |-> FALSE, v |-> <<>>]
    IN  IF s = <<>> THEN [ok |-> TRUE, v |-> <<>>]
        ELSE IF Len(s) < 4 THEN [ok |-> FALSE, v |-> <<>>]
        ELSE quantum(B64Val(s[1]), B64Val(s[2]), B64Val(s[3]), B64Val(s[4]))

\* base64.StdEncoding.DecodeString: line breaks are skipped, padding is
\* required; the value is the decoded bytes
DecodeString(s) ==
    LET bytes(r) ==
            IF r.ok THEN [v |-> r.v, err |-> NoErr]
            ELSE [v |-> <<>>, err |-> <<"base64", s, "illegal base64 data">>]
    IN  bytes(B64Quanta(SelectSeq(s, LAMBDA c : c \notin {"\r", "\n"})))

\* ------------------------------------------------------------ form data

\* url.QueryUnescape: %XY is a byte, + is a space
RECURSIVE QueryUnescape(_)
QueryUnescape(s) ==
    LET more(c, r) == [ok |-> r.ok, v |-> <<c>> \o r.v]
    IN  IF s = <<>> THEN [ok |-> TRUE, v |-> <<>>]
        ELSE IF s[1] = "%"
        THEN IF Len(s) >= 3 /\ IsHex(s[2]) /\ IsHex(s[3])
             THEN more(Chr(HexVal(s[2]) * 16 + HexVal(s[3])), QueryUnescape(Drop(s, 3)))
             ELSE [ok |-> FALSE, v |-> <<>>]
        ELSE more(IF s[1] = "+" THEN " " ELSE s[1], QueryUnescape(Tail(s)))

\* the pairs of a query in order, and the error ParseQuery ends with: a pair
\* holding ';' sets the error, a bad escape sets it when none is set yet
RECURSIVE QueryPairs(_, _, _)
QueryPairs(pieces, pairs, err) ==
    LET piece == Head(pieces)
        eq    == Index(piece, "=")
        pair(k, v) ==
            IF Index(piece, ";") # 0
            THEN QueryPairs(Tail(pieces), pairs, "invalid semicolon separator in query")
            ELSE IF piece = <<>> THEN QueryPairs(Tail(pieces), pairs, err)
            ELSE IF ~k.ok \/ ~v.ok
            THEN QueryPairs(Tail(pieces), pairs, IF err = "" THEN "invalid URL escape" ELSE err)
            ELSE QueryPairs(Tail(pieces), Append(pairs, <<k.v, v.v>>), err)
    IN  IF pieces = <<>> THEN [pairs |-> pairs, err |-> err]
        ELSE pair(QueryUnescape(IF eq = 0 THEN piece ELSE SubSeq(piece, 1, eq - 1)),
                  QueryUnescape(IF eq = 0 THEN <<>> ELSE Drop(piece, eq)))

\* url.ParseQuery: the value maps each key to its values in order
ParseQuery(s) ==
    LET group(r) ==
            LET keys == {r.pairs[i][1] : i \in 1..Len(r.pairs)}
                vals(k) == LET own == SelectSeq(r.pairs, LAMBDA p : p[1] = k)
                           IN  [i \in 1..Len(own) |-> own[i][2]]
            IN  [v   |-> [k \in keys |-> vals(k)],
                 err |-> IF r.err = "" THEN NoErr ELSE <<"ParseQuery", s, r.err>>]
    IN  group(QueryPairs(IF s = <<>> THEN <<>> ELSE Split(s, "&"), <<>>, ""))

\* ------------------------------------------------------------ JSON

\* A JSON value is <<"obj", members>>, <<"arr", elements>>, <<"str", chars>>,
\* <<"num", text>> or <<"lit", name>>; a member is <<key, value>>.
\* A parser returns [ok, v, rest].
JFail == [ok |-> FALSE, v |-> <<>>, rest |-> <<>>]

StartsWith(s, p) == Len(s) >= Len(p) /\ SubSeq(s, 1, Len(p)) = p

\* the characters of a string literal after its opening quote
RECURSIVE JChars(_, _)
JChars(s, acc) ==
    IF s = <<>> THEN JFail
    ELSE IF s[1] = "\"" THEN [ok |-> TRUE, v |-> <<"str", acc>>, rest |-> Tail(s)]
    ELSE IF s[1] \in {"\t", "\n", "\r"} THEN JFail
    ELSE IF s[1] # "\\" THEN JChars(Tail(s), Append(acc, s[1]))
    ELSE IF Len(s) < 2 THEN JFail
    ELSE IF s[2] \in {"\"", "\\", "/"} THEN JChars(Drop(s, 2), Append(acc, s[2]))
    ELSE IF s[2] = "n" THEN JChars(Drop(s, 2), Append(acc, "\n"))
    ELSE IF s[2] = "t" THEN JChars(Drop(s, 2), Append(acc, "\t"))
    ELSE IF s[2] = "r" THEN JChars(Drop(s, 2), Append(acc, "\r"))
    ELSE IF s[2] = "b" THEN JChars(Drop(s, 2), Append(acc, Chr(8)))
    ELSE IF s[2] = "f" THEN JChars(Drop(s, 2), Append(acc, Chr(12)))
    ELSE IF s[2] = "u" /\ Len(s) >= 6 /\ \A i \in 3..6 : IsHex(s[i])
         THEN JChars(Drop(s, 6),
                     Append(acc, IF s[3] = "0" /\ s[4] = "0"
                                 THEN Chr(HexVal(s[5]) * 16 + HexVal(s[6]))
                                 ELSE "\\u" \o s[3] \o s[4] \o s[5] \o s[6]))
    ELSE JFail

\* -? (0 | [1-9][0-9]*) (. [0-9]+)? ([eE] [+-]? [0-9]+)?
JNumber(s) ==
    LET number(m, x) ==
            IF \/ m.ip = <<>>
               \/ Len(m.ip) > 1 /\ m.ip[1] = "0"
               \/ m.dot /\ m.fp = <<>>
               \/ x.hasE /\ x.ed = <<>>
            THEN JFail
            ELSE [ok |-> TRUE, v |-> <<"num", SubSeq(s, 1, Len(s) - Len(x.rest))>>,
                  rest |-> x.rest]
        exp(m) == number(m, Exponent(m.rest))
    IN  exp(Mantissa(IF s # <<>> /\ s[1] = "-" THEN Tail(s) ELSE s))

JLiterals == {<<"t", "r", "u", "e">>, <<"f", "a", "l", "s", "e">>, <<"n", "u", "l", "l">>}

RECURSIVE JValue(_)
RECURSIVE JMembers(_, _)
RECURSIVE JElements(_, _)

\* a value, leading white space skipped
JValue(s0) ==
    LET s == TrimLeft(s0)
    IN  IF s = <<>> THEN JFail
        ELSE IF s[1] = "\"" THEN JChars(Tail(s), <<>>)
        ELSE IF s[1] = "{"
        THEN LET t == TrimLeft(Tail(s))
             IN  IF t # <<>> /\ t[1] = "}"
                 THEN [ok |-> TRUE, v |-> <<"obj", <<>>>>, rest |-> Tail(t)]
                 ELSE JMembers(t, <<>>)
        ELSE IF s[1] = "["
        THEN LET t == TrimLeft(Tail(s))
             IN  IF t # <<>> /\ t[1] = "]"
                 THEN [ok |-> TRUE, v |-> <<"arr", <<>>>>, rest |-> Tail(t)]
                 ELSE JElements(t, <<>>)
        ELSE IF s[1] = "-" \/ IsDigit(s[1]) THEN JNumber(s)
        ELSE IF \E l \in JLiterals : StartsWith(s, l)
        THEN LET l == CHOOSE l \in JLiterals : StartsWith(s, l)
             IN  [ok |-> TRUE, v |-> <<"lit", l>>, rest |-> Drop(s, Len(l))]
        ELSE JFail

\* "key" : value, then ',' and more members or '}'
JMembers(s0, acc) ==
    LET s == TrimLeft(s0)
        member(k, v) ==
            LET t == TrimLeft(v.rest)
            IN  IF ~v.ok \/ t = <<>> THEN JFail
                ELSE IF t[1] = "}"
                THEN [ok |-> TRUE, v |-> <<"obj", Append(acc, <<k.v[2], v.v>>)>>,
                      rest |-> Tail(t)]
                ELSE IF t[1] = "," THEN JMembers(Tail(t), Append(acc, <<k.v[2], v.v>>))
                ELSE JFail
        key(k) ==
            LET c == TrimLeft(k.rest)
            IN  member(k, IF k.ok /\ c # <<>> /\ c[1] = ":" THEN JValue(Tail(c)) ELSE JFail)
    IN  key(IF s # <<>> /\ s[1] = "\"" THEN JChars(Tail(s), <<>>) ELSE JFail)

JElements(s0, acc) ==
    LET element(v) ==
            LET t == TrimLeft(v.rest)
            IN  IF ~v.ok \/ t = <<>> THEN JFail
                ELSE IF t[1] = "]"
                THEN [ok |-> TRUE, v |-> <<"arr", Append(acc, v.v)>>, rest |-> Tail(t)]
                ELSE IF t[1] = "," THEN JElements(Tail(t), Append(acc, v.v))
                ELSE JFail
    IN  element(JValue(s0))

\* the whole text is one value (json's checkValid)
JSONParse(s) ==
    LET whole(r) == IF r.ok /\ TrimLeft(r.rest) = <<>> THEN r ELSE JFail
    IN  whole(JValue(s))

\* ------------------------------------------------------------ types and values

\* the types setValueFromEnv's type switch names
ScalarTypes ==
    {"time.Duration", "time.Time", "int", "int32", "int64", "uint", "uint32", "uint64",
     "float32", "float64", "bool", "string"}

SliceTypes ==
    {"[]string", "[]int", "[]int32", "[]int64", "[]float32", "[]float64",
     "[]uint", "[]uint32", "[]uint64"}

BuiltinTypes == ScalarTypes \cup SliceTypes

\* types the switch does not name: a user struct, a named integer type
\* (type MyInt int), url.Values and []byte
OtherTypes == {"struct", "MyInt", "url.Values", "[]byte"}

\* reflect.Kind, as far as Parse asks: time.Time is a struct too
KindOf(typ) == IF typ \in {"struct", "time.Time"} THEN "struct" ELSE "other"

\* the width of an integer or float type, or of the elements of a slice type
Bits(typ) ==
    IF typ \in {"int32", "uint32", "float32", "[]int32", "[]uint32", "[]float32"} THEN 32
    ELSE 64

IntTypes == {"int", "int32", "int64", "MyInt"}

UintTypes == {"uint", "uint32", "uint64"}

FloatTypes == {"float32", "float64"}

\* the zero value of a type; a nil slice or map is <<>>, one that is set is <<elements>>
ZeroValue(typ) ==
    CASE typ \in IntTypes \cup UintTypes \cup {"time.Duration"} -> Trunc(Zero64, Bits(typ))
      [] typ \in FloatTypes -> FloatZero
      [] typ = "bool" -> <<FALSE>>
      [] typ = "time.Time" -> TimeZero
      [] OTHER -> <<>>

\* a value other than the zero value, for a target that was filled before the call
PriorValue(typ) ==
    CASE typ \in IntTypes \cup UintTypes \cup {"time.Duration"} -> Trunc(<<1, 0, 0, 0>>, Bits(typ))
      [] typ \in FloatTypes -> <<FALSE, <<"1">>, 0>>
      [] typ = "bool" -> <<TRUE>>
      [] typ = "time.Time" -> <<2000, 1, 1, 0, 0, 0, <<>>, 0>>
      [] typ = "string" -> <<"o", "l", "d">>
      [] typ = "[]string" -> << <<<<"o", "l", "d">>>> >>
      [] typ \in {"[]float32", "[]float64"} -> << <<<<FALSE, <<"1">>, 0>>>> >>
      [] typ = "url.Values" -> << [k \in {<<"o">>} |-> <<<<"l", "d">>>>] >>
      [] typ = "[]byte" -> << <<1>> >>
      [] OTHER -> << <<Trunc(<<1, 0, 0, 0>>, IF typ \in {"[]int32", "[]uint32"} THEN 32 ELSE 64)>> >>

\* ------------------------------------------------------------ json.Unmarshal

IsNull(jv) == jv = <<"lit", <<"n", "u", "l", "l">>>>

TypeError(codec, typ) == <<codec, typ, "cannot unmarshal into Go value">>

\* a JSON value stored into a field of a scalar type: null changes nothing, a
\* value of the wrong kind or out of the type's range is an UnmarshalTypeError
JSONStore(typ, jv, old) ==
    LET bad == [v |-> old, err |-> TypeError("json", typ)]
        num(r) == IF r.err = NoErr THEN [v |-> Trunc(r.v, Bits(typ)), err |-> NoErr] ELSE bad
        float(r) == IF r.err = NoErr THEN [v |-> r.v, err |-> NoErr] ELSE bad
    IN  IF IsNull(jv) THEN [v |-> old, err |-> NoErr]
        ELSE CASE typ = "string" ->
                    IF jv[1] = "str" THEN [v |-> jv[2], err |-> NoErr] ELSE bad
               [] typ = "bool" ->
                    IF jv[1] = "lit" THEN [v |-> <<jv[2] = <<"t", "r", "u", "e">>>>, err |-> NoErr]
                    ELSE bad
               [] typ \in IntTypes ->
                    IF jv[1] = "num" THEN num(ParseIntBits(jv[2], Bits(typ))) ELSE bad
               [] typ \in UintTypes ->
                    IF jv[1] = "num" THEN num(ParseUint(jv[2], Bits(typ))) ELSE bad
               [] typ \in FloatTypes ->
                    IF jv[1] = "num" THEN float(ParseFloat(jv[2], Bits(typ))) ELSE bad

\* the field of a struct a key names: the exported field of that name, or
\* else the first whose name equals it but for case; 0 when there is none
FieldByName(sub, key, fold) ==
    LET same(j) == /\ sub[j].exported
                   /\ IF fold THEN LowerStr(sub[j].name) = LowerStr(key) ELSE sub[j].name = key
        exact   == {j \in 1..Len(sub) : same(j)}
    IN  IF exact = {} THEN 0 ELSE CHOOSE j \in exact : \A k \in exact : j <= k

JSONField(sub, key) ==
    LET fold(j) == IF j # 0 THEN j ELSE FieldByName(sub, key, TRUE)
    IN  fold(FieldByName(sub, key, FALSE))

\* the members of an object stored into a struct's fields, in order: a member
\* that fails is skipped, the first error is kept, the rest is still stored
RECURSIVE JSONObject(_, _, _, _)
JSONObject(sub, members, vals, err) ==
    LET stored(j, r) ==
            JSONObject(sub, Tail(members), [vals EXCEPT ![j] = r.v],
                       IF err = NoErr THEN r.err ELSE err)
        member(j) ==
            IF j = 0 THEN JSONObject(sub, Tail(members), vals, err)
            ELSE stored(j, JSONStore(sub[j].typ, members[1][2], vals[j]))
    IN  IF members = <<>> THEN [vals |-> vals, err |-> err]
        ELSE member(JSONField(sub, members[1][1]))

\* json.Unmarshal(data, &field): vals are the values of the struct's fields (of
\* the field itself, <<value>>, when it is no struct).  A text that is not JSON
\* is rejected before anything is stored.
JSONUnmarshal(f, data, vals) ==
    LET scalar(r) == [vals |-> <<r.v>>, err |-> r.err]
        decode(p) ==
            IF ~p.ok THEN [vals |-> vals, err |-> <<"json", data, "invalid character">>]
            ELSE IF f.typ # "struct" THEN scalar(JSONStore(f.typ, p.v, vals[1]))
            ELSE IF IsNull(p.v) THEN [vals |-> vals, err |-> NoErr]
            ELSE IF p.v[1] # "obj" THEN [vals |-> vals, err |-> TypeError("json", f.typ)]
            ELSE JSONObject(f.sub, p.v[2], vals, NoErr)
    IN  decode(JSONParse(data))

\* ------------------------------------------------------------ xml.Unmarshal

IsNameChar(c) == IsLetter(c) \/ IsDigit(c) \/ c \in {"_", "-", ".", ":"}

RECURSIVE NamePrefix(_)
NamePrefix(s) ==
    IF s # <<>> /\ IsNameChar(s[1]) THEN <<s[1]>> \o NamePrefix(Tail(s)) ELSE <<>>

\* the local name of prefix:local
LocalName(n) ==
    LET i == Index(n, ":")
    IN  IF i > 1 /\ i < Len(n) THEN Drop(n, i) ELSE n

Entities ==
    << <<<<"l", "t", ";">>, "<">>, <<<<"g", "t", ";">>, ">">>, <<<<"a", "m", "p", ";">>, "&">>,
       <<<<"a", "p", "o", "s", ";">>, "'">>, <<<<"q", "u", "o", "t", ";">>, "\"">> >>

\* character data up to the character stop ('<' for text, the quote of an
\* attribute value); an & must begin one of the five named entities
RECURSIVE XText(_, _, _)
XText(s, stop, acc) ==
    IF s = <<>> \/ s[1] = stop THEN [ok |-> TRUE, v |-> acc, rest |-> s]
    ELSE IF s[1] = "&"
    THEN LET hit == {i \in 1..Len(Entities) : StartsWith(Tail(s), Entities[i][1])}
         IN  IF hit = {} THEN JFail
             ELSE LET i == CHOOSE i \in hit : TRUE
                  IN  XText(Drop(s, 1 + Len(Entities[i][1])), stop, Append(acc, Entities[i][2]))
    ELSE IF stop # "<" /\ s[1] = "<" THEN JFail
    ELSE XText(Tail(s), stop, Append(acc, s[1]))

\* the attributes of a start tag, up to > or />: name = "value", only checked
RECURSIVE XAttrs(_)
XAttrs(s0) ==
    LET s == TrimLeft(s0)
        value(n, v) ==
            IF n = <<>> \/ ~v.ok \/ v.rest = <<>> THEN [kind |-> "err", rest |-> <<>>]
            ELSE XAttrs(Tail(v.rest))
        quoted(n, s2) ==
            value(n, IF s2 # <<>> /\ s2[1] \in {"\"", "'"} THEN XText(Tail(s2), s2[1], <<>>)
                     ELSE JFail)
        equals(n, s1) == quoted(n, IF s1 # <<>> /\ s1[1] = "=" THEN TrimLeft(Tail(s1)) ELSE <<>>)
        named(n) == equals(n, TrimLeft(Drop(s, Len(n))))
    IN  IF s = <<>> THEN [kind |-> "err", rest |-> <<>>]
        ELSE IF s[1] = ">" THEN [kind |-> "start", rest |-> Tail(s)]
        ELSE IF StartsWith(s, <<"/", ">">>) THEN [kind |-> "self", rest |-> Drop(s, 2)]
        ELSE named(NamePrefix(s))

\* the next token: [kind, name, text, rest], kind one of start, self (<a/>),
\* end, text, eof, err
XToken(s) ==
    LET none == [kind |-> "err", name |-> <<>>, text |-> <<>>, rest |-> <<>>]
        text(t) ==
            IF t.ok THEN [kind |-> "text", name |-> <<>>, text |-> t.v, rest |-> t.rest]
            ELSE none
        closed(n, r) ==
            IF n # <<>> /\ r # <<>> /\ r[1] = ">"
            THEN [kind |-> "end", name |-> n, text |-> <<>>, rest |-> Tail(r)]
            ELSE none
        end(n) == closed(n, TrimLeft(Drop(s, 2 + Len(n))))
        opened(n, a) ==
            IF n = <<>> \/ IsDigit(n[1]) \/ n[1] \in {"-", "."} \/ a.kind = "err" THEN none
            ELSE [kind |-> a.kind, name |-> n, text |-> <<>>, rest |-> a.rest]
        start(n) == opened(n, XAttrs(Drop(s, 1 + Len(n))))
    IN  IF s = <<>> THEN [none EXCEPT !.kind = "eof"]
        ELSE IF s[1] # "<" THEN text(XText(s, "<", <<>>))
        ELSE IF Len(s) >= 2 /\ s[2] = "/" THEN end(NamePrefix(Drop(s, 2)))
        ELSE start(NamePrefix(Tail(s)))

\* the content of the element name, after its start tag, to its end tag: the
\* character data directly in it; elements within are read and dropped
RECURSIVE XContent(_, _, _)
XContent(s, name, acc) ==
    LET nested(in) == IF in.ok THEN XContent(in.rest, name, acc) ELSE JFail
        token(t) ==
            CASE t.kind = "text" -> XContent(t.rest, name, acc \o t.text)
              [] t.kind = "self" -> XContent(t.rest, name, acc)
              [] t.kind = "start" -> nested(XContent(t.rest, t.name, <<>>))
              [] t.kind = "end" ->
                    IF t.name = name THEN [ok |-> TRUE, v |-> acc, rest |-> t.rest] ELSE JFail
              [] OTHER -> JFail
    IN  token(XToken(s))

\* copyValue: the character data of an element stored into a scalar field
XMLCopy(typ, data, old) ==
    LET text == TrimSpace(data)
        num(r) == IF r.err = NoErr THEN [v |-> Trunc(r.v, Bits(typ)), err |-> NoErr]
                  ELSE [v |-> old, err |-> r.err]
        keep(r) == IF r.err = NoErr THEN r ELSE [v |-> old, err |-> r.err]
    IN  CASE typ = "string" -> [v |-> data, err |-> NoErr]
          [] typ = "[]byte" -> [v |-> <<[i \in 1..Len(data) |-> Code(data[i])]>>, err |-> NoErr]
          [] typ \in IntTypes ->
                IF data = <<>> THEN [v |-> ZeroValue(typ), err |-> NoErr]
                ELSE num(ParseIntBits(text, Bits(typ)))
          [] typ \in UintTypes ->
                IF data = <<>> THEN [v |-> ZeroValue(typ), err |-> NoErr]
                ELSE num(ParseUint(text, Bits(typ)))
          [] typ \in FloatTypes ->
                IF data = <<>> THEN [v |-> FloatZero, err |-> NoErr]
                ELSE keep(ParseFloat(text, Bits(typ)))
          [] typ = "bool" ->
                IF data = <<>> THEN [v |-> <<FALSE>>, err |-> NoErr]
                ELSE keep(ParseBool(text))

XMLSyntax(data) == <<"xml", data, "syntax error">>

\* the field of a struct an element names: exported, of exactly that name
XMLField(sub, name) == FieldByName(sub, LocalName(name), FALSE)

\* the children of a struct's element, read in order and stored as they are
\* read: what was stored before an error stays stored
RECURSIVE XMLStruct(_, _, _, _, _)
XMLStruct(s, name, sub, vals, data) ==
    LET copied(j, in, c) ==
            IF c.err # NoErr THEN [vals |-> vals, err |-> c.err]
            ELSE XMLStruct(in.rest, name, sub, [vals EXCEPT ![j] = c.v], data)
        child(j, in) ==
            IF ~in.ok THEN [vals |-> vals, err |-> XMLSyntax(data)]
            ELSE IF j = 0 THEN XMLStruct(in.rest, name, sub, vals, data)
            ELSE copied(j, in, XMLCopy(sub[j].typ, in.v, vals[j]))
        token(t) ==
            CASE t.kind = "text" -> XMLStruct(t.rest, name, sub, vals, data)
              [] t.kind = "end" ->
                    IF t.name = name THEN [vals |-> vals, err |-> NoErr]
                    ELSE [vals |-> vals, err |-> XMLSyntax(data)]
              [] t.kind = "start" ->
                    child(XMLField(sub, t.name), XContent(t.rest, t.name, <<>>))
              [] t.kind = "self" ->
                    child(XMLField(sub, t.name), [ok |-> TRUE, v |-> <<>>, rest |-> t.rest])
              [] OTHER -> [vals |-> vals, err |-> XMLSyntax(data)]
    IN  token(XToken(s))

\* the input from its first start tag on: text before it is skipped
RECURSIVE XMLRoot(_)
XMLRoot(s) ==
    LET token(t) == IF t.kind = "text" THEN XMLRoot(t.rest) ELSE t
    IN  token(XToken(s))

\* xml.Unmarshal(data, &field): vals as for JSONUnmarshal.  What follows the
\* root element is not read.  A map is a type xml does not know.
XMLUnmarshal(f, data, vals) ==
    LET copied(c) ==
            IF c.err # NoErr THEN [vals |-> vals, err |-> c.err]
            ELSE [vals |-> <<c.v>>, err |-> NoErr]
        scalar(in) ==
            IF ~in.ok THEN [vals |-> vals, err |-> XMLSyntax(data)]
            ELSE copied(XMLCopy(f.typ, in.v, vals[1]))
        root(t) ==
            IF t.kind = "eof" THEN [vals |-> vals, err |-> <<"xml", data, "EOF">>]
            ELSE IF t.kind \notin {"start", "self"} THEN [vals |-> vals, err |-> XMLSyntax(data)]
            ELSE IF f.typ = "url.Values"
            THEN [vals |-> vals, err |-> <<"xml", f.typ, "unknown type">>]
            ELSE IF f.typ = "struct"
            THEN IF t.kind = "self" THEN [vals |-> vals, err |-> NoErr]
                 ELSE XMLStruct(t.rest, t.name, f.sub, vals, data)
            ELSE IF t.kind = "self" THEN scalar([ok |-> TRUE, v |-> <<>>, rest |-> t.rest])
            ELSE scalar(XContent(t.rest, t.name, <<>>))
    IN  root(XMLRoot(data))

\* ------------------------------------------------------------ setValueFromEnv

Encodings == {"json", "xml", "form", "base64"}

\* one element of a comma-separated value, converted as the slice's case does
ParseElement(typ, v) ==
    LET cut(r) == [v |-> Trunc(r.v, Bits(typ)), err |-> r.err]
    IN  CASE typ = "[]int"     -> cut(Atoi(TrimSpace(v)))
          [] typ = "[]int32"   -> cut(Atoi(TrimSpace(v)))
          [] typ = "[]int64"   -> cut(ParseInt(TrimSpace(v)))
          [] typ = "[]float32" -> ParseFloat(TrimSpace(v), 32)
          [] typ = "[]float64" -> ParseFloat(TrimSpace(v), 64)
          [] typ = "[]uint"    -> cut(ParseUint(TrimSpace(v), 64))
          [] typ = "[]uint32"  -> cut(ParseUint(TrimSpace(v), 32))
          [] typ = "[]uint64"  -> cut(ParseUint(TrimSpace(v), 64))

\* the loop over the elements: the first error returns, nothing is stored
RECURSIVE ParseElements(_, _, _)
ParseElements(typ, parts, acc) ==
    LET element(r) ==
            IF r.err # NoErr THEN [v |-> <<>>, err |-> r.err]
            ELSE ParseElements(typ, Tail(parts), Append(acc, r.v))
    IN  IF parts = <<>> THEN [v |-> <<acc>>, err |-> NoErr]
        ELSE element(ParseElement(typ, Head(parts)))

\* reflect's Set: the value must be assignable to the field's type
Assignable(from, typ) == from = typ

\* a default case that takes a tag it does not know, or none, for an error
DecodeByTagStrict(vals, f, val) ==
    IF f.enc \in {"json", "xml", "form", "base64"}
    THEN [vals |-> vals, err |-> NoErr, panic |-> FALSE]
    ELSE [vals |-> vals, err |-> <<"unsupported encoding">>, panic |-> FALSE]

\* the default case of the type switch: the encoding tag picks the codec; a
\* decoded value that cannot be assigned to the field makes field.Set panic;
\* with any other tag, or none, nothing is done
DecodeByTag(vals, f, val) ==
    LET codec(r) == [vals |-> r.vals, err |-> r.err, panic |-> FALSE]
        Set(r, from) ==
            IF r.err # NoErr THEN [vals |-> vals, err |-> r.err, panic |-> FALSE]
            ELSE IF Assignable(from, f.typ)
            THEN [vals |-> <<<<r.v>>>>, err |-> NoErr, panic |-> FALSE]
            ELSE [vals |-> vals, err |-> NoErr, panic |-> TRUE]
    IN  CASE f.enc = "json"   -> codec(JSONUnmarshal(f, val, vals))
          [] f.enc = "xml"    -> codec(XMLUnmarshal(f, val, vals))
          [] f.enc = "form"   -> Set(ParseQuery(val), "url.Values")
          [] f.enc = "base64" -> Set(DecodeString(val), "[]byte")
          [] OTHER            -> [vals |-> vals, err |-> NoErr, panic |-> FALSE]

\* setValueFromEnv(field, fieldType, val).  vals holds what the field holds:
\* the values of its fields for a user struct, <<value>> otherwise.  The
\* result is what it holds afterwards, the error returned, and whether the
\* call panicked instead of returning.
setValueFromEnv(vals, f, val) ==
    LET done(v)  == [vals |-> <<v>>, err |-> NoErr, panic |-> FALSE]
        fail(e)  == [vals |-> vals, err |-> e, panic |-> FALSE]
        set(r)   == IF r.err # NoErr THEN fail(r.err) ELSE done(r.v)
        SetInt(r) == IF r.err # NoErr THEN fail(r.err) ELSE done(Trunc(r.v, Bits(f.typ)))
        SetFloat(r) ==
            IF r.err # NoErr THEN fail(r.err)
            ELSE done(IF f.typ = "float32" THEN Float32Of(r.v) ELSE r.v)
    IN  CASE f.typ = "time.Duration" -> set(ParseDuration(val))
          [] f.typ = "time.Time" -> set(ParseTime(val))
          [] f.typ \in {"int", "int32", "int64"} -> SetInt(Atoi(val))
          [] f.typ \in {"uint", "uint32", "uint64"} -> SetInt(ParseUint(val, 64))
          [] f.typ \in {"float32", "float64"} -> SetFloat(ParseFloat(val, 64))
          [] f.typ = "bool" -> set(ParseBool(val))
          [] f.typ = "string" -> done(val)
          [] f.typ = "[]string" -> done(<<Split(val, ",")>>)
          [] f.typ \in SliceTypes \ {"[]string"} ->
                set(ParseElements(f.typ, Split(val, ","), <<>>))
          [] OTHER -> DecodeByTag(vals, f, val)

\* ------------------------------------------------------------ Parse

VARIABLES
    target,    \* the argument of the top-level call: [kind, elem, rec, preset]
    environ,   \* the process environment: the keys that are set, and their values
    fields,    \* the value of every field of the target, by path
    stack,     \* the calls of Parse in progress: [path, i, errs]
    looked,    \* the keys given to os.LookupEnv so far, in order
    visited,   \* the fields the loops have come to so far, in order
    result     \* [state, err]: init, running, returned or panicked

vars == <<target, environ, fields, stack, looked, visited, result>>

\* the three fields of time.Time, none exported
TimeFields ==
    << [name |-> <<"w", "a", "l", "l">>, typ |-> "uint64", env |-> "", enc |-> "",
        anon |-> FALSE, exported |-> FALSE, sub |-> <<>>],
       [name |-> <<"e", "x", "t">>, typ |-> "int64", env |-> "", enc |-> "",
        anon |-> FALSE, exported |-> FALSE, sub |-> <<>>],
       [name |-> <<"l", "o", "c">>, typ |-> "*time.Location", env |-> "", enc |-> "",
        anon |-> FALSE, exported |-> FALSE, sub |-> <<>>] >>

\* v.NumField() and v.Field(i) of a field that is a struct
SubOf(f) == IF f.typ = "time.Time" THEN TimeFields ELSE f.sub

RECURSIVE FieldAt(_, _)
FieldAt(rec, path) ==
    IF Len(path) = 1 THEN rec[path[1]] ELSE FieldAt(SubOf(rec[path[1]]), Tail(path))

\* the struct a call of Parse walks: the target's, or that of the field at path
RecAt(path) == IF path = <<>> THEN target.rec ELSE SubOf(FieldAt(target.rec, path))

\* the paths of the fields that hold a value: every field but the user structs
RECURSIVE ValuePaths(_, _)
ValuePaths(rec, prefix) ==
    UNION {IF rec[i].typ = "struct" THEN ValuePaths(rec[i].sub, Append(prefix, i))
           ELSE {Append(prefix, i)} : i \in 1..Len(rec)}

\* what the field at path holds, as setValueFromEnv takes it
Held(fs, f, path) ==
    IF f.typ = "struct" THEN [j \in 1..Len(f.sub) |-> fs[Append(path, j)]]
    ELSE <<fs[path]>>

\* the fields after the field at path has come to hold vals
Store(fs, f, path, vals) ==
    [p \in DOMAIN fs |->
        IF f.typ = "struct" /\ \E j \in 1..Len(f.sub) : p = Append(path, j)
        THEN vals[p[Len(p)]]
        ELSE IF f.typ # "struct" /\ p = path THEN vals[1]
        ELSE fs[p]]

NilErr == [kind |-> "nil", key |-> "", entries |-> <<>>]

\* errors.New("target must be a pointer to a struct")
InvalidTarget == [kind |-> "target must be a pointer to a struct", key |-> "", entries |-> <<>>]

\* fmt.Errorf("missing %s environment", envKey)
MissingKeyError(key) == [kind |-> "missing environment", key |-> key, entries |-> <<>>]

\* fmt.Errorf("env '%s': %v", envKey, err)
FieldError(key, cause) == <<key, cause>>

\* the banner, then only the error found last
AggregatedLast(errs) ==
    [kind |-> "error parsing environment to struct:", key |-> "", entries |-> <<errs[Len(errs)]>>]

\* the banner, then one line for each error in errs
Aggregated(errs) ==
    [kind |-> "error parsing environment to struct:", key |-> "", entries |-> errs]

\* a struct passed by value taken like a pointer to one
IsPointerOrStruct(kind, elem) == kind = "struct" \/ (kind = "ptr" /\ elem = "struct")

\* val.Kind() != reflect.Ptr || val.Elem().Kind() != reflect.Struct
IsStructPointer(kind, elem) == kind = "ptr" /\ elem = "struct"

\* every field taken for settable
CanSetAny(f) == TRUE

\* field.CanSet(): the field is exported
CanSet(f) == f.exported

\* every struct walked, with a key or without, and nothing else
IsNestedByKind(f) == KindOf(f.typ) = "struct"

\* a field Parse calls itself on
IsNested(f) == f.anon \/ (KindOf(f.typ) = "struct" /\ (f.env = "" \/ f.env = "-"))

\* a field with no key to look up
NoKey(f) == f.env = "" \/ f.env = "-"

LookupEnv(key) ==
    IF key \in DOMAIN environ THEN [val |-> environ[key], ok |-> TRUE]
    ELSE [val |-> <<>>, ok |-> FALSE]

Top == stack[Len(stack)]

AtField == result.state = "running" /\ Top.i <= Len(RecAt(Top.path))

Cur == RecAt(Top.path)[Top.i]

CurPath == Append(Top.path, Top.i)

\* the loop goes on with the next field
Advance(errs) == [stack EXCEPT ![Len(stack)] = [@ EXCEPT !.i = @ + 1, !.errs = errs]]

\* every call in progress returns err
ReturnError(err) ==
    /\ stack' = <<>>
    /\ result' = [state |-> "returned", err |-> err]

\* ------------------------------------------------------------ the calls checked

\* the values an environment variable is given
RawValues ==
    {<<"7">>,
     <<"-", "3">>,
     <<"2", "e">>,
     <<>>,
     <<" ", "7">>,
     <<"+", "5">>,
     <<"2", "1", "4", "7", "4", "8", "3", "6", "4", "8">>,
     <<"4", "2", "9", "4", "9", "6", "7", "2", "9", "5">>,
     <<"4", "2", "9", "4", "9", "6", "7", "2", "9", "6">>,
     <<"9", "2", "2", "3", "3", "7", "2", "0", "3", "6", "8", "5", "4", "7", "7", "5", "8", "0", "7">>,
     <<"9", "2", "2", "3", "3", "7", "2", "0", "3", "6", "8", "5", "4", "7", "7", "5", "8", "0", "8">>,
     <<"1", "8", "4", "4", "6", "7", "4", "4", "0", "7", "3", "7", "0", "9", "5", "5", "1", "6", "1", "5">>,
     <<"1", "8", "4", "4", "6", "7", "4", "4", "0", "7", "3", "7", "0", "9", "5", "5", "1", "6", "1", "6">>,
     <<"3", ".", "1", "4">>,
     <<"3", ".", "1", "4", "e">>,
     <<"1", "e", "3", "9">>,
     <<"1", "e", "3", "0", "9">>,
     <<"t", "r", "u", "e">>,
     <<"n", "o", "t", " ", "t", "r", "u", "e">>,
     <<"2", "h", "3", "0", "m">>,
     <<"2", "h", "h", "3", "0", "m", "m">>,
     <<"2", "0", "2", "3", "-", "1", "0", "-", "0", "1", "T", "1", "5", ":", "0", "4", ":", "0", "5", "Z">>,
     <<"2", "9", "-", "0", "1", "-", "2", "0", "2", "4", " ", "1", "5", ":", "0", "0", ":", "0", "0">>,
     <<"a", ",", "b", ",", "c">>,
     <<"a", ",", " ", "b">>,
     <<"1", ",", "2", ",", "3">>,
     <<"1", ",", " ", "2", " ", ",", "3">>,
     <<"1", ",", "2", ",", "3", "e">>,
     <<"1", ",", "x", ",", "y">>,
     <<"1", ",", "2", ",", "-", "3">>,
     <<"1", ",", "-", "2", ",", "3">>,
     <<"1", ".", "1", ",", "2", ",", "3", ".", "2">>,
     <<"1", ".", "1", ",", "2", ",", "3", ".", "2", "e">>,
     <<"1", ",", "4", "2", "9", "4", "9", "6", "7", "2", "9", "6">>,
     <<"{", "\"", "n", "a", "m", "e", "\"", ":", "\"", "A", "l", "\"", ",", "\"", "a", "g", "e", "\"", ":", "3", "0", "}">>,
     <<"\"", "n", "a", "m", "e", "\"", "=", "\"", "A", "l", "\"">>,
     <<"{", "\"", "n", "a", "m", "e", "\"", ":", "\"", "A", "l", "\"", ",", "\"", "a", "g", "e", "\"", ":", "\"", "x", "\"", "}">>,
     <<"n", "u", "l", "l">>,
     <<"<", "d", ">", "<", "n", "a", "m", "e", ">", "A", "l", "<", "/", "n", "a", "m", "e", ">", "<", "a", "g", "e", ">", "3", "0", "<", "/", "a", "g", "e", ">", "<", "/", "d", ">">>,
     <<"<", "d", ">", "<", "n", "a", "m", "e", ">", "A", "l", "<", "/", "n", "a", "m", "e", ">", "<", "a", "g", "e", ">", "x", "<", "/", "a", "g", "e", ">", "<", "/", "d", ">">>,
     <<"<", "d", ">", "<", "n", "a", "m", "e", ">", "A", "l", "<", "/", "n", "a", "m", "e", ">">>,
     <<"a", "=", "1", "&", "b", "=", "2", "&", "a", "=", "3">>,
     <<"a", "=", "1", ";", "b", "=", "2">>,
     <<"a", "=", "%", "z", "z">>,
     <<"a", "G", "k", "=">>,
     <<"1", "s", "x", " ", "1", "2", "3", " ">>,
     <<"a", "G", "k">>}

\* a field as the cases below write it: env is "K" where the field names a key
\* of its own, and raw is <<>> when that key is not set, <<value>> when it is
Case(name, typ, env, enc, anon, exported, sub, raw) ==
    [name |-> name, typ |-> typ, env |-> env, enc |-> enc, anon |-> anon,
     exported |-> exported, sub |-> sub, raw |-> raw]

Leaf(typ, env, enc, raw) == Case(<<"f">>, typ, env, enc, FALSE, TRUE, <<>>, raw)

\* the fields of the user struct the codecs decode into:
\* Name string `json:"name" xml:"name"`; Age int `json:"age" xml:"age"`
DataFields ==
    << Case(<<"n", "a", "m", "e">>, "string", "", "", FALSE, TRUE, <<>>, <<>>),
       Case(<<"a", "g", "e">>, "int", "", "", FALSE, TRUE, <<>>, <<>>) >>

\* json.Unmarshal into a map or a byte slice is not modelled
Modelled(typ, enc) == ~(enc = "json" /\ typ \in {"url.Values", "[]byte"})

\* every type with every encoding annotation and every value
ConvCases ==
    {Case(<<"f">>, c[1], "K", c[2], FALSE, TRUE, IF c[1] = "struct" THEN DataFields ELSE <<>>, <<c[3]>>) :
        c \in {x \in (BuiltinTypes \cup OtherTypes) \X (Encodings \cup {"", "yaml"}) \X RawValues :
                  Modelled(x[1], x[2])}}

\* a record of 1 to MaxFields fields is walked at the top level
MaxFields == 3

Ok == Leaf("int", "K", "", <<<<"7">>>>)

Bad == Leaf("int", "K", "", <<<<"2", "e">>>>)

Unset == Leaf("int", "K", "", <<>>)

\* fields that are not nested records: converted, failing, key not set,
\* `env:"-"`, no annotation, not exported (key set, key not set), and an
\* embedded type that is no struct (type MyInt int)
LeafCases ==
    {Ok, Bad, Unset,
     Leaf("string", "-", "", <<>>),
     Leaf("string", "", "", <<>>),
     Case(<<"f">>, "int", "K", "", FALSE, FALSE, <<>>, <<<<"7">>>>),
     Case(<<"f">>, "int", "K", "", FALSE, FALSE, <<>>, <<>>),
     Case(<<"M", "y", "I", "n", "t">>, "MyInt", "", "", TRUE, TRUE, <<>>, <<>>)}

Nest(env, anon, exported, sub) == Case(<<"N">>, "struct", env, "", anon, exported, sub, <<>>)

\* the records nested in a field
InnerRecords ==
    {<<Ok>>, <<Bad>>, <<Unset>>, <<Bad, Ok>>, <<Ok, Bad>>, <<Bad, Bad>>, <<Bad, Unset>>,
     <<Ok, Unset>>, <<Unset, Ok>>,
     <<Nest("", TRUE, TRUE, <<Bad>>), Ok>>,
     <<Bad, Nest("", FALSE, TRUE, <<Unset>>)>>,
     <<Nest("-", FALSE, TRUE, <<Ok, Bad>>), Bad>>}

\* fields that are records: embedded, named with no annotation or `env:"-"`,
\* embedded with a key, not exported, a time.Time with no annotation, and a
\* named struct with a key and an encoding
NestedCases ==
    {Nest("", TRUE, TRUE, r) : r \in InnerRecords}
    \cup {Nest("", FALSE, TRUE, r) : r \in InnerRecords}
    \cup {Nest("-", FALSE, TRUE, r) : r \in {<<Ok>>, <<Bad>>, <<Unset>>}}
    \cup {Nest("K", TRUE, TRUE, <<Ok>>), Nest("K", TRUE, TRUE, <<Bad, Ok>>),
          Nest("", FALSE, FALSE, <<Ok>>), Nest("", TRUE, FALSE, <<Unset>>),
          Case(<<"T">>, "time.Time", "", "", FALSE, TRUE, <<>>, <<>>),
          Case(<<"T">>, "time.Time", "-", "", TRUE, TRUE, <<>>, <<>>)}
    \cup {Case(<<"N">>, "struct", "K", enc, FALSE, TRUE, <<Ok>>, raw) :
             enc \in {"", "json"}, raw \in {<<>>, <<<<"{", "}">>>>, <<<<"2", "e">>>>}}

\* the fields next to a nested one
Siblings == {Ok, Bad, Unset, Nest("", TRUE, TRUE, <<Bad>>)}

\* the sequences of at most n of the cases
RECURSIVE Seqs(_, _)
Seqs(cases, n) ==
    IF n = 0 THEN {<<>>}
    ELSE {<<>>} \cup {<<c>> \o r : c \in cases, r \in Seqs(cases, n - 1)}

\* the records walked: 1 to MaxFields leaves, or a nested field among siblings
TreeRecords ==
    (Seqs(LeafCases, MaxFields) \ {<<>>})
    \cup UNION {{a \o <<c>> \o b : c \in NestedCases,
                                  b \in Seqs(Siblings, MaxFields - 1 - Len(a))} :
                 a \in Seqs(Siblings, MaxFields - 1)}

Records == TreeRecords \cup {<<c>> : c \in ConvCases}

\* the name of the key of the field at path
RECURSIVE PathText(_)
PathText(path) == IF path = <<>> THEN "" ELSE Digits[path[1] + 1] \o PathText(Tail(path))

KeyName(path) == "K" \o PathText(path)

\* the struct type the cases describe
RECURSIVE Instantiate(_, _)
Instantiate(cases, prefix) ==
    [i \in 1..Len(cases) |->
        [name     |-> cases[i].name,
         typ      |-> cases[i].typ,
         env      |-> IF cases[i].env = "K" THEN KeyName(Append(prefix, i)) ELSE cases[i].env,
         enc      |-> cases[i].enc,
         anon     |-> cases[i].anon,
         exported |-> cases[i].exported,
         sub      |-> Instantiate(cases[i].sub, Append(prefix, i))]]

\* the variables the cases set
RECURSIVE EnvPairs(_, _)
EnvPairs(cases, prefix) ==
    UNION {(IF cases[i].env = "K" /\ cases[i].raw # <<>>
            THEN {<<KeyName(Append(prefix, i)), cases[i].raw[1]>>} ELSE {})
           \cup EnvPairs(cases[i].sub, Append(prefix, i)) : i \in 1..Len(cases)}

\* the environment: those variables, and one named "-"
EnvOf(cases) ==
    LET ps == EnvPairs(cases, <<>>)
    IN  [k \in {p[1] : p \in ps} \cup {"-"} |->
            IF k = "-" THEN <<"7">> ELSE (CHOOSE p \in ps : p[1] = k)[2]]

\* what Parse can be called with: &s, s, a pointer to something that is no
\* struct, a nil *S, nil
PtrToStruct == [kind |-> "ptr", elem |-> "struct"]

OtherTargets ==
    {[kind |-> "struct", elem |-> "none"], [kind |-> "ptr", elem |-> "int"],
     [kind |-> "ptr", elem |-> "invalid"], [kind |-> "invalid", elem |-> "none"]}

\* the values of the target's fields before the call
InitialFields(rec, preset) ==
    [p \in ValuePaths(rec, <<>>) |->
        IF preset THEN PriorValue(FieldAt(rec, p).typ) ELSE ZeroValue(FieldAt(rec, p).typ)]

InitWith(form, cases, preset) ==
    /\ target = [kind |-> form.kind, elem |-> form.elem, rec |-> Instantiate(cases, <<>>),
                 preset |-> preset]
    /\ environ = EnvOf(cases)
    /\ fields = InitialFields(Instantiate(cases, <<>>), preset)
    /\ stack = <<>>
    /\ looked = <<>>
    /\ visited = <<>>
    /\ result = [state |-> "init", err |-> NilErr]

Init ==
    \/ \E cases \in Records, preset \in BOOLEAN : InitWith(PtrToStruct, cases, preset)
    \/ \E form \in OtherTargets :
          InitWith(form, IF form.kind = "struct" THEN <<Ok>> ELSE <<>>, FALSE)

\* the top-level call: Parse(target)
ParseCall ==
    /\ result.state = "init"
    /\ IF IsStructPointer(target.kind, target.elem)
       THEN /\ stack' = <<[path |-> <<>>, i |-> 1, errs |-> <<>>]>>
            /\ result' = [state |-> "running", err |-> NilErr]
       ELSE ReturnError(InvalidTarget)
    /\ UNCHANGED <<target, environ, fields, looked, visited>>

\* if !field.CanSet() { continue }
SkipUnsettable ==
    /\ AtField
    /\ ~CanSet(Cur)
    /\ stack' = Advance(Top.errs)
    /\ visited' = Append(visited, CurPath)
    /\ UNCHANGED <<target, environ, fields, looked, result>>

\* Parse(field.Addr().Interface()) on an embedded field or a struct without a
\* key: the call starts, or fails at once and fails this call with it
Recurse ==
    /\ AtField
    /\ CanSet(Cur)
    /\ IsNested(Cur)
    /\ IF IsStructPointer("ptr", KindOf(Cur.typ))
       THEN /\ stack' = Append(stack, [path |-> CurPath, i |-> 1, errs |-> <<>>])
            /\ UNCHANGED result
       ELSE ReturnError(InvalidTarget)
    /\ visited' = Append(visited, CurPath)
    /\ UNCHANGED <<target, environ, fields, looked>>

\* if envKey == "" || envKey == "-" { continue }
SkipNoKey ==
    /\ AtField
    /\ CanSet(Cur)
    /\ ~IsNested(Cur)
    /\ NoKey(Cur)
    /\ stack' = Advance(Top.errs)
    /\ visited' = Append(visited, CurPath)
    /\ UNCHANGED <<target, environ, fields, looked, result>>

\* a missing key appended to errs like a failed conversion
MissingKeyAccumulated ==
    /\ AtField
    /\ CanSet(Cur)
    /\ ~IsNested(Cur)
    /\ ~NoKey(Cur)
    /\ ~LookupEnv(Cur.env).ok
    /\ stack' = Advance(Append(Top.errs, FieldError(Cur.env, <<"missing environment">>)))
    /\ looked' = Append(looked, Cur.env)
    /\ visited' = Append(visited, CurPath)
    /\ UNCHANGED <<target, environ, fields, result>>

\* a missing key that puts the target back as it was before the call
MissingKeyRollsBack ==
    /\ AtField
    /\ CanSet(Cur)
    /\ ~IsNested(Cur)
    /\ ~NoKey(Cur)
    /\ ~LookupEnv(Cur.env).ok
    /\ ReturnError(MissingKeyError(Cur.env))
    /\ fields' = InitialFields(target.rec, target.preset)
    /\ looked' = Append(looked, Cur.env)
    /\ visited' = Append(visited, CurPath)
    /\ UNCHANGED <<target, environ>>

\* os.LookupEnv(envKey) finds nothing: return the missing-key error
MissingKey ==
    /\ AtField
    /\ CanSet(Cur)
    /\ ~IsNested(Cur)
    /\ ~NoKey(Cur)
    /\ ~LookupEnv(Cur.env).ok
    /\ ReturnError(MissingKeyError(Cur.env))
    /\ looked' = Append(looked, Cur.env)
    /\ visited' = Append(visited, CurPath)
    /\ UNCHANGED <<target, environ, fields>>

\* setValueFromEnv on the value found; an error is appended to errs
Convert ==
    /\ AtField
    /\ CanSet(Cur)
    /\ ~IsNested(Cur)
    /\ ~NoKey(Cur)
    /\ LookupEnv(Cur.env).ok
    /\ LET converted(r) ==
               IF r.panic
               THEN /\ result' = [state |-> "panicked", err |-> NilErr]
                    /\ stack' = <<>>
                    /\ UNCHANGED fields
               ELSE /\ fields' = Store(fields, Cur, CurPath, r.vals)
                    /\ stack' = Advance(IF r.err = NoErr THEN Top.errs
                                        ELSE Append(Top.errs, FieldError(Cur.env, r.err)))
                    /\ UNCHANGED result
       IN  converted(setValueFromEnv(Held(fields, Cur, CurPath), Cur, LookupEnv(Cur.env).val))
    /\ looked' = Append(looked, Cur.env)
    /\ visited' = Append(visited, CurPath)
    /\ UNCHANGED <<target, environ>>

\* the loop is over: the aggregated error if errs holds any, else nil; the
\* caller returns an error it is given, and goes on with its next field on nil
Return ==
    /\ result.state = "running"
    /\ Top.i > Len(RecAt(Top.path))
    /\ IF Top.errs # <<>> THEN ReturnError(Aggregated(Top.errs))
       ELSE IF Len(stack) = 1
       THEN /\ stack' = <<>>
            /\ result' = [state |-> "returned", err |-> NilErr]
       ELSE /\ stack' = [SubSeq(stack, 1, Len(stack) - 1) EXCEPT
                           ![Len(stack) - 1] = [@ EXCEPT !.i = @ + 1]]
            /\ UNCHANGED result
    /\ UNCHANGED <<target, environ, fields, looked, visited>>

Next ==
    \/ ParseCall
    \/ SkipUnsettable
    \/ Recurse
    \/ SkipNoKey
    \/ MissingKey
    \/ Convert
    \/ Return

Spec == Init /\ [][Next]_vars

\* ------------------------------------------------------------ what is checked

Range(s) == {s[i] : i \in 1..Len(s)}

Last(s) == s[Len(s)]

Front(s) == SubSeq(s, 1, Len(s) - 1)

Returned == result.state = "returned"

\* the target's fields as they were when Parse was called
FieldsBefore == InitialFields(target.rec, target.preset)

Visited(p) == FieldAt(target.rec, p)

\* the loop that came to the field at p had a value for it to convert
Converts(p) ==
    /\ Visited(p).exported
    /\ ~IsNested(Visited(p))
    /\ Visited(p).env \notin {"", "-"}
    /\ Visited(p).env \in DOMAIN environ

\* what converting the field at p gives, from what the field held before
Outcome(p) ==
    setValueFromEnv(Held(FieldsBefore, Visited(p), p), Visited(p), environ[Visited(p).env])

Fails(p) == Converts(p) /\ Outcome(p).err # NoErr

Banner == "error parsing environment to struct:"

\* the key and cause of every failing field of rec, depth-first, in declaration order
RECURSIVE Failures(_, _)
Failures(rec, prefix) ==
    IF rec = <<>> THEN <<>>
    ELSE LET p == Append(prefix, 1 + Len(RecAt(prefix)) - Len(rec))
         IN  (IF ~Visited(p).exported THEN <<>>
              ELSE IF IsNested(Visited(p)) THEN Failures(SubOf(Visited(p)), p)
              ELSE IF Fails(p) THEN <<<<Visited(p).env, Outcome(p).err>>>>
              ELSE <<>>)
             \o Failures(Tail(rec), prefix)

\* a field in a nested record failed to convert
NestedFailure == \E p \in Range(visited) : Len(p) > 1 /\ Fails(p)

\* C1: conversion failures inside a nested record are accumulated with the
\* caller's: once a field of a nested record has failed to convert, a call
\* that returns anything but a missing-key or invalid-target error has visited
\* every field of the top-level record and returns the aggregated error that
\* lists every failing key of the tree, depth-first in declaration order.
NestedFailuresAccumulate ==
    (Returned /\ NestedFailure /\ result.err.kind = Banner) =>
        /\ \A i \in 1..Len(target.rec) : <<i>> \in Range(visited)
        /\ result.err.entries = Failures(target.rec, <<>>)

\* no field is one Parse calls itself on, and every key named is set
FlatAllPresent ==
    /\ target.kind = "ptr" /\ target.elem = "struct"
    /\ \A i \in 1..Len(target.rec) :
          /\ ~target.rec[i].anon
          /\ ~(KindOf(target.rec[i].typ) = "struct" /\ target.rec[i].env \in {"", "-"})
          /\ target.rec[i].env \in DOMAIN environ \cup {""}

\* C2: on a record with no nested record whose keys are all set, a call that
\* returns has visited every field in order and stored every value that
\* converts; it returns nil if no conversion failed, and else one aggregated
\* error: the banner, then each failing key with its cause once, in
\* declaration order.
FlatRecordAggregates ==
    (Returned /\ FlatAllPresent) =>
        /\ visited = [i \in 1..Len(target.rec) |-> <<i>>]
        /\ \A i \in 1..Len(target.rec) :
              (Converts(<<i>>) /\ ~Fails(<<i>>)) =>
                  Held(fields, target.rec[i], <<i>>) = Outcome(<<i>>).vals
        /\ result.err.entries =
              SelectSeq([i \in 1..Len(target.rec) |->
                            IF Fails(<<i>>) THEN <<target.rec[i].env, Outcome(<<i>>).err>>
                            ELSE <<>>],
                        LAMBDA e : e # <<>>)
        /\ result.err.kind = IF \E i \in 1..Len(target.rec) : Fails(<<i>>) THEN Banner ELSE "nil"
        /\ result.err.key = ""

\* C2 happens: three fields, two fail and are listed, the third is stored
FlatRecordAggregatesWitness ==
    /\ Returned /\ FlatAllPresent
    /\ Len(target.rec) = 3
    /\ Len(result.err.entries) = 2
    /\ target.preset
    /\ \E i \in 1..3 : Converts(<<i>>) /\ ~Fails(<<i>>) /\ fields[<<i>>] = <<7, 0, 0, 0>>

\* the field at p names a key that is not set, and Parse looks it up
MissesKey(p) ==
    /\ Visited(p).exported
    /\ ~IsNested(Visited(p))
    /\ Visited(p).env \notin {"", "-"}
    /\ Visited(p).env \notin DOMAIN environ

\* C3: once the loop has come to a field, at any depth, whose key is not set,
\* the whole call has returned the missing-key error for that key, alone; it
\* is the last field visited and the last key looked up.
MissingKeyShortCircuits ==
    \A j \in 1..Len(visited) :
        MissesKey(visited[j]) =>
            /\ j = Len(visited)
            /\ looked # <<>> /\ Last(looked) = Visited(visited[j]).env
            /\ stack = <<>>
            /\ result = [state |-> "returned",
                         err |-> [kind |-> "missing environment",
                                  key |-> Visited(visited[j]).env, entries |-> <<>>]]

\* C3 happens: a key is missing in a nested record after a field of the
\* caller has failed to convert, with a well-formed field still to come
MissingKeyShortCircuitsWitness ==
    /\ Returned
    /\ result.err.kind = "missing environment"
    /\ Len(Last(visited)) = 2
    /\ \E j \in 1..Len(visited) : Len(visited[j]) = 1 /\ Fails(visited[j])
    /\ \E i \in 1..Len(target.rec) : <<i>> \notin Range(visited) /\ Converts(<<i>>)

\* Convert has just acted on the field at p, and returned
JustConverted(p) ==
    /\ result.state = "running"
    /\ visited # <<>>
    /\ p = Last(visited)
    /\ Converts(p)
    /\ Top.path = Front(p)
    /\ Top.i = Last(p) + 1

\* the call's errs has an error for the field at p; keys differ from field to field
FailedNow(p) == \E e \in Range(Top.errs) : e[1] = Visited(p).env

CauseNow(p) == (CHOOSE e \in Range(Top.errs) : e[1] = Visited(p).env)[2]

HeldNow(p) == Held(fields, Visited(p), p)

HeldBefore(p) == Held(FieldsBefore, Visited(p), p)

\* C4: no partial writes: a field whose conversion has failed holds what it
\* held before the call.
NoPartialWriteOnFailure ==
    \A p \in Range(visited) :
        (JustConverted(p) /\ FailedNow(p)) => HeldNow(p) = HeldBefore(p)

IsNumeral(s) == s # <<>> /\ \A i \in 1..Len(s) : IsDigit(s[i])

RECURSIVE NoLeadingZeros(_)
NoLeadingZeros(s) ==
    IF Len(s) > 1 /\ s[1] = "0" THEN NoLeadingZeros(Tail(s)) ELSE s

\* of two decimal numerals without leading zeros, a is the greater
NumeralAbove(a, b) ==
    \/ Len(a) > Len(b)
    \/ /\ Len(a) = Len(b)
       /\ \E i \in 1..Len(a) :
             /\ DigitVal(a[i]) > DigitVal(b[i])
             /\ \A j \in 1..(i - 1) : a[j] = b[j]

\* 2^32 - 1 and 2^64 - 1 in base 10
MaxUint32Text == <<"4", "2", "9", "4", "9", "6", "7", "2", "9", "5">>

MaxUint64Text ==
    <<"1", "8", "4", "4", "6", "7", "4", "4", "0", "7", "3", "7", "0", "9", "5", "5", "1", "6", "1", "5">>

\* a base-10 numeral with a negative sign, or above 2^w - 1 for a type of width w
UnsignedOutOfRange(s, typ) ==
    \/ Len(s) > 1 /\ s[1] = "-" /\ IsNumeral(Tail(s))
    \/ /\ IsNumeral(s)
       /\ NumeralAbove(NoLeadingZeros(s),
                       IF typ \in {"uint32", "[]uint32"} THEN MaxUint32Text ELSE MaxUint64Text)

\* the field at p is unsigned, or a slice of unsigned, and its value, or an
\* element of it, is negative or too large
UnsignedInputOutOfRange(p) ==
    \/ /\ Visited(p).typ \in UintTypes
       /\ UnsignedOutOfRange(environ[Visited(p).env], Visited(p).typ)
    \/ /\ Visited(p).typ \in {"[]uint", "[]uint32", "[]uint64"}
       /\ \E e \in Range(Split(environ[Visited(p).env], ",")) :
             UnsignedOutOfRange(TrimSpace(e), Visited(p).typ)

\* C5: converting an unsigned field, or a slice of unsigned, from a numeral
\* with a negative sign or above 2^w - 1 fails, and stores nothing.
UnsignedOutOfRangeFails ==
    \A p \in Range(visited) :
        (JustConverted(p) /\ UnsignedInputOutOfRange(p)) =>
            FailedNow(p) /\ HeldNow(p) = HeldBefore(p)

\* an element of a slice converted by the rule of its scalar type, trimmed first
TrimmedElement(typ, e) ==
    IF typ = "[]string" THEN [v |-> TrimSpace(e), err |-> NoErr]
    ELSE ParseElement(typ, TrimSpace(e))

\* C6: a slice field, of strings too, becomes the trimmed, converted pieces of
\* its value in order; if a piece fails, the conversion fails with the cause
\* of the first piece that fails.
SlicesSplitTrimConvert ==
    \A p \in Range(visited) :
        (JustConverted(p) /\ Visited(p).typ \in SliceTypes) =>
            LET parts == Split(environ[Visited(p).env], ",")
                elems == [i \in 1..Len(parts) |-> TrimmedElement(Visited(p).typ, parts[i])]
                bad   == {i \in 1..Len(parts) : elems[i].err # NoErr}
            IN  IF bad = {}
                THEN /\ ~FailedNow(p)
                     /\ HeldNow(p) = << <<[i \in 1..Len(parts) |-> elems[i].v]>> >>
                ELSE /\ FailedNow(p)
                     /\ CauseNow(p) = elems[CHOOSE i \in bad : \A j \in bad : i <= j].err

\* the fields at p and below it hold what they held before the call
Untouched(p) ==
    \A q \in DOMAIN fields :
        (Len(q) >= Len(p) /\ SubSeq(q, 1, Len(p)) = p) => fields[q] = FieldsBefore[q]

\* C7: a visited field that is no record and has no key is left as it was,
\* nothing is looked up for it and the call gets no error from it; a settable
\* record without a key is walked next, field by field.
NoKeyFieldsSkippedOrWalked ==
    \A j \in 1..Len(visited) :
        LET p == visited[j]
        IN  /\ (KindOf(Visited(p).typ) # "struct" /\ NoKey(Visited(p))) =>
                  /\ Untouched(p)
                  /\ Visited(p).env \notin Range(looked)
                  /\ j = Len(visited) => result.err.kind # "target must be a pointer to a struct"
            /\ (KindOf(Visited(p).typ) = "struct" /\ NoKey(Visited(p)) /\ Visited(p).exported
                    /\ SubOf(Visited(p)) # <<>>) =>
                  IF j < Len(visited) THEN visited[j + 1] = Append(p, 1)
                  ELSE result.state = "running" /\ Top.path = p /\ Top.i = 1

\* C8: a field that is not exported is passed over in silence: its key is
\* never looked up, no error names it, it and what lies below it hold what
\* they held before, and no field below it is visited.
UnexportedNeverTouched ==
    \A j \in 1..Len(visited) :
        ~Visited(visited[j]).exported =>
            /\ Visited(visited[j]).env \notin Range(looked)
            /\ Untouched(visited[j])
            /\ result.err.key # Visited(visited[j]).env \/ Visited(visited[j]).env = ""
            /\ \A e \in Range(result.err.entries) : e[1] # Visited(visited[j]).env
            /\ \A k \in 1..Len(stack) : \A e \in Range(stack[k].errs) :
                  e[1] # Visited(visited[j]).env
            /\ j = Len(visited) => result.err.kind # "target must be a pointer to a struct"
            /\ \A q \in Range(visited) :
                  ~(Len(q) > Len(visited[j]) /\ SubSeq(q, 1, Len(visited[j])) = visited[j])

\* C8 happens: the call returns nil, having come to a field that is not
\* exported and names a key that is not set
UnexportedNeverTouchedWitness ==
    /\ Returned
    /\ result.err.kind = "nil"
    /\ \E p \in Range(visited) :
          /\ ~Visited(p).exported
          /\ Visited(p).env \notin {"", "-"}
          /\ Visited(p).env \notin DOMAIN environ
    /\ \E p \in Range(visited) : Converts(p)

\* C9: a call with anything but a pointer to a struct returns the
\* invalid-target error at once: no key is looked up, no field is visited or
\* changed, and no error is collected.
InvalidTargetFailsAtOnce ==
    (~(target.kind = "ptr" /\ target.elem = "struct") /\ result.state # "init") =>
        /\ result = [state |-> "returned",
                     err |-> [kind |-> "target must be a pointer to a struct", key |-> "",
                              entries |-> <<>>]]
        /\ looked = <<>>
        /\ visited = <<>>
        /\ fields = FieldsBefore
        /\ stack = <<>>

\* C9 happens: Parse was called with a struct, not with a pointer to it
InvalidTargetFailsAtOnceWitness ==
    /\ Returned
    /\ target.kind = "struct"
    /\ target.rec # <<>>
    /\ target.rec[1].env \in DOMAIN environ

\* C10: a field of a type the switch does not name is decoded as its encoding
\* says, and the codec's error is the field's; with any other encoding, or
\* none, nothing is stored and no error is added.  A type the switch names is
\* converted the same whatever its encoding.
EncodingOnlyForOtherTypes ==
    \A p \in Range(visited) :
        JustConverted(p) =>
            LET f == Visited(p)
                val == environ[f.env]
                codec(r, vals) ==
                    IF r.err # NoErr THEN FailedNow(p) /\ CauseNow(p) = r.err
                    ELSE ~FailedNow(p) /\ HeldNow(p) = vals
                same(r) ==
                    /\ FailedNow(p) <=> r.err # NoErr
                    /\ HeldNow(p) = r.vals
                decoded(r) == codec(r, r.vals)
                set(r) == codec(r, << <<r.v>> >>)
            IN  IF f.typ \in BuiltinTypes
                THEN same(setValueFromEnv(HeldBefore(p), [f EXCEPT !.enc = ""], val))
                ELSE CASE f.enc = "json"   -> decoded(JSONUnmarshal(f, val, HeldBefore(p)))
                       [] f.enc = "xml"    -> decoded(XMLUnmarshal(f, val, HeldBefore(p)))
                       [] f.enc = "form"   -> set(ParseQuery(val))
                       [] f.enc = "base64" -> set(DecodeString(val))
                       [] OTHER -> ~FailedNow(p) /\ HeldNow(p) = HeldBefore(p)

\* C10 happens: a struct that held values is converted under an encoding that is
\* not one of the four
EncodingOnlyForOtherTypesWitness ==
    /\ target.preset
    /\ \E p \in Range(visited) :
          /\ JustConverted(p)
          /\ Visited(p).typ = "struct"
          /\ Visited(p).enc = "yaml"
          /\ Top.errs = <<>>

\* the keys named by the fields of rec and of the structs in it
RECURSIVE KeysBelow(_)
KeysBelow(rec) ==
    UNION {({rec[i].env} \ {"", "-"}) \cup KeysBelow(SubOf(rec[i])) : i \in 1..Len(rec)}

\* a field below the field at p has been visited
VisitedBelow(p) ==
    \E q \in Range(visited) : Len(q) > Len(p) /\ SubSeq(q, 1, Len(p)) = p

\* the call on the field at visited[j] has started: its first field is the next visited
WalkedNext(j) ==
    SubOf(Visited(visited[j])) # <<>> =>
        IF j < Len(visited) THEN visited[j + 1] = Append(visited[j], 1)
        ELSE result.state = "running" /\ Top.path = visited[j] /\ Top.i = 1

Written(q) ==
    \E p \in Range(visited) :
        Converts(p) /\ Len(q) >= Len(p) /\ SubSeq(q, 1, Len(p)) = p

\* C12: a call that returns an error has rolled nothing back: every field
\* converted without error before the failure holds its converted value, and
\* every field the call did not come to convert holds what it held before.
FailureKeepsEarlierWrites ==
    (Returned /\ result.err.kind # "nil") =>
        /\ \A p \in Range(visited) :
              (Converts(p) /\ Outcome(p).err = NoErr) => HeldNow(p) = Outcome(p).vals
        /\ \A q \in DOMAIN fields : ~Written(q) => fields[q] = FieldsBefore[q]

\* C12 happens: the missing-key error is returned after a field was given a
\* new value and before a field whose key is set was visited
FailureKeepsEarlierWritesWitness ==
    /\ Returned
    /\ result.err.kind = "missing environment"
    /\ \E p \in Range(visited) :
          Converts(p) /\ Outcome(p).err = NoErr /\ HeldNow(p) # HeldBefore(p)
    /\ \E i \in 1..Len(target.rec) :
          <<i>> \notin Range(visited) /\ Converts(<<i>>) /\ fields[<<i>>] = FieldsBefore[<<i>>]

====
